---- MODULE Spec2Model ----
(***************************************************************************)
(* Model of the MCP node registry of yxi-chat-cli (src/mcp_client.py):     *)
(* the MCPClient object (nodes, active_name), the JSON state file it loads *)
(* at construction and rewrites after every mutation, and the operations   *)
(* add_node, remove_node, set_active, list_nodes and get_active_node, and  *)
(* the two HTTP operations list_tools and invoke_tool.                     *)
(*                                                                         *)
(* Python strings are sequences of code points.  A Python / JSON value is  *)
(* a record [t, s]: t is its type ("None", "str", "num", "list") and s its *)
(* content.  A dict keeps insertion order, so self.nodes is a sequence of  *)
(* MCPNode records with pairwise different names.                          *)
(*                                                                         *)
(* file, nodes, active_name are the state file and the client of the       *)
(* process; pc is its position, call the record of the last call, http and *)
(* tcall the requests and the record of the last tool call.  clients and   *)
(* writer are the clients of two processes on one file and the one that    *)
(* wrote it last; chat is the state of the chat loop of src/chatbot.py.    *)
(* A specification that has no second process or no chat loop leaves them  *)
(* at NoClients, 0 and NoChat.                                             *)
(***************************************************************************)
EXTENDS Integers, Sequences, FiniteSets, TLC

VARIABLES file, nodes, active_name, pc, call, http, tcall,
          clients, writer, chat

vars == <<file, nodes, active_name, pc, call, http, tcall, clients, writer, chat>>

(***************************************************************************)
(* Bounds                                                                  *)
(***************************************************************************)
\* the longest run of '/' characters an url argument ends with
MaxSlashes == 2

(***************************************************************************)
(* Values                                                                  *)
(***************************************************************************)
\* ord("/"), the character url.rstrip("/") removes
SLASH == 47

PyNone == [t |-> "None", s |-> <<>>]

Str(x) == [t |-> "str", s |-> x]

Num(n) == [t |-> "num", s |-> <<n>>]

\* the empty JSON list []: falsy and unhashable
EmptyList == [t |-> "list", s |-> <<>>]

\* Python truthiness: bool(v)
Truthy(v) ==
  CASE v.t = "None" -> FALSE
    [] v.t = "str"  -> v.s # <<>>
    [] v.t = "num"  -> v.s[1] # 0
    [] v.t = "list" -> FALSE

\* hash(v) succeeds
Hashable(v) == v.t # "list"

\* "a", "A", "B"
Names == {<<97>>, <<65>>, <<66>>}

\* the name arguments of the calls: the names and the empty string
NameArgs == Names \cup {<<>>}

RECURSIVE Slashes(_)
Slashes(k) == IF k = 0 THEN <<>> ELSE Append(Slashes(k - 1), SLASH)

\* the url arguments: "", "h", and both followed by 1..MaxSlashes '/'
UrlArgs ==
  {<<>>, <<104>>}
    \cup {Slashes(k) : k \in 1..MaxSlashes}
    \cup {<<104>> \o Slashes(k) : k \in 1..MaxSlashes}

\* the token arguments: None (omitted) and "t"
TokenArgs == {PyNone, Str(<<116>>)}

(***************************************************************************)
(* str methods                                                             *)
(***************************************************************************)
\* a variant of rstrip that removes one trailing '/' only
rstrip_once(u) ==
  IF u # <<>> /\ u[Len(u)] = SLASH THEN SubSeq(u, 1, Len(u) - 1) ELSE u

\* url.rstrip("/"): every trailing '/' is removed
RECURSIVE rstrip(_)
rstrip(u) ==
  IF u # <<>> /\ u[Len(u)] = SLASH
    THEN rstrip(SubSeq(u, 1, Len(u) - 1))
    ELSE u

\* a variant of lower that leaves the capitals
lower_same(s) == s

\* str.lower() on the ASCII letters
lower(s) == [i \in DOMAIN s |-> IF s[i] >= 65 /\ s[i] <= 90 THEN s[i] + 32 ELSE s[i]]

\* a < b for strings (lexicographic on code points)
RECURSIVE StrLess(_, _)
StrLess(a, b) ==
  IF b = <<>> THEN FALSE
  ELSE IF a = <<>> THEN TRUE
  ELSE IF a[1] # b[1] THEN a[1] < b[1]
  ELSE StrLess(Tail(a), Tail(b))

(***************************************************************************)
(* dict operations on self.nodes (insertion ordered)                       *)
(***************************************************************************)
MCPNode(name, url, token) == [name |-> name, url |-> url, token |-> token]

\* name in self.nodes
InNodes(ns, name) == \E i \in DOMAIN ns : ns[i].name = name

\* self.nodes[name]
NodeOf(ns, name) == ns[CHOOSE i \in DOMAIN ns : ns[i].name = name]

\* a variant of DictSet that adds the node without looking for its name
DictSet_append(ns, node) == Append(ns, node)

\* self.nodes[node.name] = node: an existing key keeps its position
DictSet(ns, node) ==
  IF InNodes(ns, node.name)
    THEN [i \in DOMAIN ns |-> IF ns[i].name = node.name THEN node ELSE ns[i]]
    ELSE Append(ns, node)

\* del self.nodes[name]
DictDel(ns, name) == SelectSeq(ns, LAMBDA n : n.name # name)

\* a variant of FirstKey that never finds a remaining node
FirstKey_none(ns) == PyNone

\* a variant of FirstKey that takes the key inserted last
FirstKey_last(ns) == IF ns = <<>> THEN PyNone ELSE Str(ns[Len(ns)].name)

\* next(iter(self.nodes), None)
FirstKey(ns) == IF ns = <<>> THEN PyNone ELSE Str(ns[1].name)

\* active_name in self.nodes, for a hashable active_name
ActiveInNodes(ns, a) == a.t = "str" /\ InNodes(ns, a.s)

(***************************************************************************)
(* The state file.  A file is [kind, active, nodesKind, nodes]:            *)
(*   kind      "missing", "corrupt" (not JSON), or the type of the         *)
(*             top-level JSON value: "obj", "list", "null", "num", "str"   *)
(*   active    the value of "active" (PyNone when absent or null)          *)
(*   nodesKind "absent", or the type of the value of "nodes"               *)
(*   nodes     the members of the "nodes" object in file order, each       *)
(*             [key, isDict, name, url, token]: isDict says the member is  *)
(*             an object, name/url/token are its fields (PyNone if absent) *)
(***************************************************************************)
Entry(key, isDict, name, url, token) ==
  [key |-> key, isDict |-> isDict, name |-> name, url |-> url, token |-> token]

File(kind, active, nodesKind, entries) ==
  [kind |-> kind, active |-> active, nodesKind |-> nodesKind, nodes |-> entries]

\* a variant of asdict that leaves the token out
asdict_no_token(n) == Entry(n.name, TRUE, Str(n.name), n.url, PyNone)

\* dataclasses.asdict(node) stored under the key node.name
asdict(n) == Entry(n.name, TRUE, Str(n.name), n.url, n.token)

\* what _save_state writes: open(..., "w") replaces the whole content
save_state(ns, a) ==
  File("obj",
       IF ActiveInNodes(ns, a) THEN a ELSE PyNone,
       "obj",
       [i \in DOMAIN ns |-> asdict(ns[i])])

\* the loop of _load_state over nodes_payload.items()
RECURSIVE LoadNodes(_, _)
LoadNodes(entries, acc) ==
  IF entries = <<>> THEN acc
  ELSE LET e == Head(entries)
       IN LoadNodes(Tail(entries),
                    IF e.isDict /\ Truthy(e.url)
                      THEN DictSet(acc, MCPNode(e.key, e.url, e.token))
                      ELSE acc)

Loaded(raised, ns, a) == [raised |-> raised, nodes |-> ns, active_name |-> a]

\* __init__ followed by _load_state: the new object, or raised = TRUE when
\* an exception leaves _load_state
load_state(f) ==
  IF f.kind = "missing" THEN Loaded(FALSE, <<>>, PyNone)
  ELSE IF f.kind = "corrupt" THEN Loaded(FALSE, <<>>, PyNone)
  ELSE IF f.kind # "obj" THEN Loaded(TRUE, <<>>, PyNone)
  ELSE IF f.nodesKind \notin {"absent", "obj"} THEN Loaded(TRUE, <<>>, PyNone)
  ELSE LET ns == LoadNodes(IF f.nodesKind = "absent" THEN <<>> ELSE f.nodes, <<>>)
       IN IF ~Hashable(f.active) THEN Loaded(TRUE, ns, PyNone)
          ELSE Loaded(FALSE, ns, IF ActiveInNodes(ns, f.active) THEN f.active ELSE PyNone)

(***************************************************************************)
(* Queries                                                                 *)
(***************************************************************************)
\* a variant of get_active_node that falls back to the first node
get_active_node_first(ns, a) ==
  IF Truthy(a) /\ ActiveInNodes(ns, a) THEN NodeOf(ns, a.s)
  ELSE IF ns # <<>> THEN ns[1] ELSE PyNone

\* get_active_node(): the active node, PyNone when there is none
get_active_node(ns, a) ==
  IF Truthy(a) /\ ActiveInNodes(ns, a) THEN NodeOf(ns, a.s) ELSE PyNone

\* one step of the stable sort: n goes behind every element whose key is
\* not greater than its own
RECURSIVE InsertByKey(_, _)
InsertByKey(acc, n) ==
  IF acc = <<>> THEN <<n>>
  ELSE IF StrLess(lower(n.name), lower(acc[1].name))
    THEN <<n>> \o acc
    ELSE <<acc[1]>> \o InsertByKey(Tail(acc), n)

RECURSIVE SortNodes(_, _)
SortNodes(ns, acc) ==
  IF ns = <<>> THEN acc ELSE SortNodes(Tail(ns), InsertByKey(acc, Head(ns)))

\* list_nodes(): sorted(self.nodes.values(), key=lambda node: node.name.lower())
list_nodes(ns) == SortNodes(ns, <<>>)

(***************************************************************************)
(* The files a client can find at start.  The members of "nodes" have     *)
(* non-empty keys, as add_node requires of every name it stores.           *)
(***************************************************************************)
NodeA == Entry(<<97>>, TRUE, Str(<<97>>), Str(<<104>>), Str(<<116>>))

NodeB == Entry(<<66>>, TRUE, Str(<<66>>), Str(<<104>>), PyNone)

InitFiles ==
  { File("missing", PyNone, "absent", <<>>),
    File("corrupt", PyNone, "absent", <<>>),
    \* [] and null
    File("list", PyNone, "absent", <<>>),
    File("null", PyNone, "absent", <<>>),
    \* {}
    File("obj", PyNone, "absent", <<>>),
    \* {"active": null, "nodes": []}
    File("obj", PyNone, "list", <<>>),
    \* {"active": [], "nodes": {}}
    File("obj", EmptyList, "obj", <<>>),
    \* {"active": 5, "nodes": {"a": {...}}}
    File("obj", Num(5), "obj", <<NodeA>>),
    \* {"active": "B", "nodes": {"B": {...}, "a": {...}}}
    File("obj", Str(<<66>>), "obj", <<NodeB, NodeA>>),
    \* {"active": "B", "nodes": {"a": {...}}}: the active name is not a node
    File("obj", Str(<<66>>), "obj", <<NodeA>>),
    \* {"active": "A", "nodes": {"a": 5, "B": {"url": ""}, "A": {"url": "h/"}}}
    File("obj", Str(<<65>>), "obj",
         << Entry(<<97>>, FALSE, PyNone, PyNone, PyNone),
            Entry(<<66>>, TRUE, PyNone, Str(<<>>), PyNone),
            Entry(<<65>>, TRUE, PyNone, Str(<<104, 47>>), PyNone) >>) }

(***************************************************************************)
(* HTTP.  A JSON value of a payload, a context or a response body is       *)
(* [t, n, tools_t, tools_n]: t is its type; n is the number for a "num",   *)
(* and for a "str", "list" or "dict" 0 when it is empty, else a tag of its *)
(* content (for a dict: of its members other than "tools"); tools_t and    *)
(* tools_n are type and n of the member "tools" of a dict ("absent" when   *)
(* it has none).                                                           *)
(***************************************************************************)
JVal(t, n) == [t |-> t, n |-> n, tools_t |-> "absent", tools_n |-> 0]

JDict(n, tools_t, tools_n) == [t |-> "dict", n |-> n, tools_t |-> tools_t, tools_n |-> tools_n]

\* no value: an argument left at None, or a call that returned nothing
JNone == JVal("None", 0)

\* {"ok": True}
OkTrue == JDict(1, "absent", 0)

\* a variant of JTruthy that takes every value but None for true
JTruthy_not_none(v) == v.t # "None"

\* bool(v)
JTruthy(v) ==
  CASE v.t \in {"None", "null"} -> FALSE
    [] v.t = "dict" -> v.n # 0 \/ v.tools_t # "absent"
    [] OTHER -> v.n # 0

\* requests' timeout of every request, in seconds
DEFAULT_TIMEOUT == 30

\* "/tools"
ToolsPath == <<47, 116, 111, 111, 108, 115>>

\* "Bearer "
Bearer == <<66, 101, 97, 114, 101, 114, 32>>

\* a variant of Authorization that sets the header for every node
Authorization_always(node) == Str(Bearer \o node.token.s)

\* _headers_for(node)["Authorization"], PyNone when the header is not set
Authorization(node) ==
  IF Truthy(node.token) THEN Str(Bearer \o node.token.s) ELSE PyNone

\* one call of requests.get / requests.post; has_body says that json= was
\* given, has_context that the body has the member "context"
Request(method, url, node, has_body, input, has_context, context) ==
  [method |-> method, url |-> url,
   content_type |-> "application/json", authorization |-> Authorization(node),
   has_body |-> has_body, input |-> input,
   has_context |-> has_context, context |-> context,
   timeout |-> DEFAULT_TIMEOUT]

\* the body of a response: empty, text that is not JSON, or the JSON text
\* of a value
Body(kind, value) == [kind |-> kind, value |-> value]

\* what comes back: kind "error" is a transport failure (no response),
\* kind "response" a response with its status and body
Response(kind, status, body) == [kind |-> kind, status |-> status, body |-> body]

NoResponse == Response("none", 0, Body("empty", JNone))

\* the JSON values of the bodies: [..], {"tools": [..]}, {"ok": true},
\* {"result": ..}, {"tools": "x"}, {"tools": [..], "result": ..}, "x", 7, null
BodyValues ==
  { JVal("list", 1), JDict(0, "list", 1), OkTrue, JDict(2, "absent", 0),
    JDict(0, "str", 1), JDict(2, "list", 2), JVal("str", 1), JVal("num", 7),
    JVal("null", 0) }

Responses ==
  {Response("error", 0, Body("empty", JNone))}
    \cup {Response("response", 200, b) :
            b \in {Body("empty", JNone), Body("invalid", JNone)}
                    \cup {Body("json", v) : v \in BodyValues}}
    \cup {Response("response", st, b) :
            st \in {204, 304, 404, 500},
            b \in {Body("empty", JNone), Body("json", JDict(2, "absent", 0))}}

\* the tool names: "" and "x"
ToolNames == {<<>>, <<120>>}

\* the payloads: {} and {"result": ..}
Payloads == {JDict(0, "absent", 0), JDict(2, "absent", 0)}

\* the contexts: None (omitted), {} and {"chat_history": ..}
Contexts == {JNone, JDict(0, "absent", 0), JDict(3, "absent", 0)}

\* the node_name arguments: None (omitted), "" and the names
NodeNameArgs == {PyNone} \cup {Str(n) : n \in NameArgs}

\* the record of the last list_tools / invoke_tool call
ToolCall(op, tool_name, payload, node_name, context, response, result, ret) ==
  [op |-> op, tool_name |-> tool_name, payload |-> payload,
   node_name |-> node_name, context |-> context, response |-> response,
   result |-> result, ret |-> ret]

NoToolCall == ToolCall("none", <<>>, JNone, PyNone, JNone, NoResponse, "ok", JNone)

(***************************************************************************)
(* The state of a second process and of the chat loop before either exists *)
(***************************************************************************)
\* the client of a process: its position and the object's two attributes
ClientOf(p, ns, a) == [pc |-> p, nodes |-> ns, active_name |-> a]

\* the two processes
Procs == {1, 2}

\* no process has constructed its client
NoClients == [c \in Procs |-> ClientOf("start", <<>>, PyNone)]

MODE_ONLINE == "online"

MODE_OFFLINE == "offline"

\* MODEL, the model of a session without a default model ("yxi-7b-terminal"
\* unless YXI_MODEL names another), written "m0"
MODEL == <<109, 48>>

\* chat_state (mode, offline_node, model), config_state["default_model"],
\* the roles of messages, and the record of the last input: the input, the
\* branch of main that took it, the node_name it passed to invoke_tool
\* (PyNone when it made no such call) and the state it started from
ChatState(mode, offline_node, model, default_model, messages, input, handler, invoked, pre) ==
  [mode |-> mode, offline_node |-> offline_node, model |-> model,
   default_model |-> default_model, messages |-> messages,
   input |-> input, handler |-> handler, invoked |-> invoked, pre |-> pre]

\* what the record of the last input keeps of the state before it
ChatPre(mode, offline_node, model, default_model, messages) ==
  [mode |-> mode, offline_node |-> offline_node, model |-> model,
   default_model |-> default_model, messages |-> messages]

\* chat_state as the module defines it, before main has read the history
NoChat ==
  ChatState(MODE_ONLINE, PyNone, MODEL, PyNone, <<>>, <<>>, "none", PyNone,
            ChatPre(MODE_ONLINE, PyNone, MODEL, PyNone, <<>>))

(***************************************************************************)
(* The calls                                                               *)
(***************************************************************************)
\* the record of the last call: its arguments, its outcome and the state
\* it started from
Call(op, name, url, token, result) ==
  [op |-> op, name |-> name, url |-> url, token |-> token, result |-> result,
   pre_nodes |-> nodes, pre_active |-> active_name, pre_file |-> file]

Init ==
  /\ file \in InitFiles
  /\ nodes = <<>>
  /\ active_name = PyNone
  /\ pc = "start"
  /\ call = [op |-> "none", name |-> <<>>, url |-> <<>>, token |-> PyNone,
             result |-> "ok", pre_nodes |-> <<>>, pre_active |-> PyNone,
             pre_file |-> file]
  /\ http = <<>>
  /\ tcall = NoToolCall
  /\ clients = NoClients
  /\ writer = 0
  /\ chat = NoChat

\* MCPClient(config_path): a new object is filled from the file; when
\* _load_state raises there is no client
Load(from, op) ==
  /\ pc = from
  /\ UNCHANGED <<clients, writer, chat>>
  /\ LET l == load_state(file)
     IN IF l.raised
          THEN /\ pc' = "raised"
               /\ nodes' = <<>>
               /\ active_name' = PyNone
               /\ call' = Call(op, <<>>, <<>>, PyNone, "raised")
          ELSE /\ pc' = "ready"
               /\ nodes' = l.nodes
               /\ active_name' = l.active_name
               /\ call' = Call(op, <<>>, <<>>, PyNone, "ok")
  /\ http' = <<>> /\ tcall' = NoToolCall
  /\ UNCHANGED file

\* the first client of the process
Construct == Load("start", "init")

\* the process ends and a new one constructs its client on the same file
Restart == Load("ready", "restart")

\* a variant of ActiveAfterAdd that always selects the added node
ActiveAfterAdd_always(a, name) == Str(name)

\* the active name add_node leaves: name if none was set
ActiveAfterAdd(a, name) == IF ~Truthy(a) THEN Str(name) ELSE a

\* a variant of add_node that checks the name only
add_node_name_only(name, url, token) ==
  /\ pc = "ready"
  /\ UNCHANGED <<clients, writer, chat>>
  /\ http' = <<>> /\ tcall' = NoToolCall
  /\ IF name = <<>>
       THEN /\ call' = Call("add_node", name, url, token, "ValueError: required")
            /\ UNCHANGED <<file, nodes, active_name, pc>>
       ELSE LET ns == DictSet(nodes, MCPNode(name, Str(rstrip(url)), token))
                a  == ActiveAfterAdd(active_name, name)
            IN /\ nodes' = ns
               /\ active_name' = a
               /\ file' = save_state(ns, a)
               /\ call' = Call("add_node", name, url, token, "ok")
               /\ UNCHANGED pc

add_node(name, url, token) ==
  /\ pc = "ready"
  /\ UNCHANGED <<clients, writer, chat>>
  /\ http' = <<>> /\ tcall' = NoToolCall
  /\ IF name = <<>> \/ url = <<>>
       THEN /\ call' = Call("add_node", name, url, token, "ValueError: required")
            /\ UNCHANGED <<file, nodes, active_name, pc>>
       ELSE LET ns == DictSet(nodes, MCPNode(name, Str(rstrip(url)), token))
                a  == ActiveAfterAdd(active_name, name)
            IN /\ nodes' = ns
               /\ active_name' = a
               /\ file' = save_state(ns, a)
               /\ call' = Call("add_node", name, url, token, "ok")
               /\ UNCHANGED pc

\* a variant of ActiveAfterRemove without the fallback
ActiveAfterRemove_keep(ns, a, name) == a

\* a variant of ActiveAfterRemove that selects the first node after every
\* removal
ActiveAfterRemove_always(ns, a, name) == FirstKey(ns)

\* the active name remove_node leaves, ns being the nodes after the del
ActiveAfterRemove(ns, a, name) == IF a = Str(name) THEN FirstKey(ns) ELSE a

remove_node(name) ==
  /\ pc = "ready"
  /\ UNCHANGED <<clients, writer, chat>>
  /\ http' = <<>> /\ tcall' = NoToolCall
  /\ IF ~InNodes(nodes, name)
       THEN /\ call' = Call("remove_node", name, <<>>, PyNone, "ValueError: not found")
            /\ UNCHANGED <<file, nodes, active_name, pc>>
       ELSE LET ns == DictDel(nodes, name)
                a  == ActiveAfterRemove(ns, active_name, name)
            IN /\ nodes' = ns
               /\ active_name' = a
               /\ file' = save_state(ns, a)
               /\ call' = Call("remove_node", name, <<>>, PyNone, "ok")
               /\ UNCHANGED pc

\* a variant of set_active without the check of the name
set_active_unchecked(name) ==
  /\ pc = "ready"
  /\ UNCHANGED <<clients, writer, chat>>
  /\ active_name' = Str(name)
  /\ file' = save_state(nodes, Str(name))
  /\ call' = Call("set_active", name, <<>>, PyNone, "ok")
  /\ http' = <<>> /\ tcall' = NoToolCall
  /\ UNCHANGED <<nodes, pc>>

set_active(name) ==
  /\ pc = "ready"
  /\ UNCHANGED <<clients, writer, chat>>
  /\ http' = <<>> /\ tcall' = NoToolCall
  /\ IF ~InNodes(nodes, name)
       THEN /\ call' = Call("set_active", name, <<>>, PyNone, "ValueError: not found")
            /\ UNCHANGED <<file, nodes, active_name, pc>>
       ELSE /\ active_name' = Str(name)
            /\ file' = save_state(nodes, Str(name))
            /\ call' = Call("set_active", name, <<>>, PyNone, "ok")
            /\ UNCHANGED <<nodes, pc>>

\* list_nodes() builds a new list and assigns to nothing
ListNodes ==
  /\ pc = "ready"
  /\ UNCHANGED <<clients, writer, chat>>
  /\ call' = Call("list_nodes", <<>>, <<>>, PyNone, "ok")
  /\ http' = <<>> /\ tcall' = NoToolCall
  /\ UNCHANGED <<file, nodes, active_name, pc>>

\* get_active_node() returns a node or None and assigns to nothing
GetActiveNode ==
  /\ pc = "ready"
  /\ UNCHANGED <<clients, writer, chat>>
  /\ call' = Call("get_active_node", <<>>, <<>>, PyNone, "ok")
  /\ http' = <<>> /\ tcall' = NoToolCall
  /\ UNCHANGED <<file, nodes, active_name, pc>>

Next ==
  \/ Construct
  \/ Restart
  \/ ListNodes
  \/ \E name \in NameArgs, url \in UrlArgs, token \in TokenArgs : add_node(name, url, token)
  \/ \E name \in NameArgs : remove_node(name)
  \/ \E name \in NameArgs : set_active(name)

Spec == Init /\ [][Next]_vars

(***************************************************************************)
(* list_tools and invoke_tool.  A call that reaches requests.get / post    *)
(* leaves the request in http and waits (pc = "waiting") until Respond     *)
(* delivers what came back.  http holds the requests of the last call and  *)
(* tcall its record; the calls of the registry leave both empty.           *)
(***************************************************************************)
\* the exceptions, named by their class (and message for ValueError)
ErrToolName == "ValueError: Tool name is required"

ErrNoActive == "ValueError: No active MCP node configured"

\* isinstance(exc, ValueError): the client's own errors and the decode
\* error of response.json()
IsValueError(r) ==
  r \in {ErrToolName, ErrNoActive, "ValueError: required", "ValueError: not found",
         "JSONDecodeError"}

\* isinstance(exc, requests.RequestException); requests' JSONDecodeError is
\* one since requests 2.27
IsRequestException(r) == r \in {"ConnectionError", "HTTPError", "JSONDecodeError"}

\* the except clauses around the calls in handle_mcp_command: ValueError
\* first, then requests.RequestException
ReportedAs(r) ==
  IF r \in {"ok", "pending"} THEN "result"
  ELSE IF IsValueError(r) THEN "error"
  ELSE IF IsRequestException(r) THEN "network error"
  ELSE "uncaught"

\* the active node of the two calls: self.get_active_node()
ActiveNode(ns, a) == get_active_node(ns, a)

\* a variant of Resolve that ignores node_name
Resolve_active(ns, a, node_name) == ActiveNode(ns, a)

\* self.nodes.get(node_name) if node_name else self.get_active_node()
Resolve(ns, a, node_name) ==
  IF Truthy(node_name)
    THEN IF InNodes(ns, node_name.s) THEN NodeOf(ns, node_name.s) ELSE PyNone
    ELSE ActiveNode(ns, a)

\* a variant of ToolError without the check of tool_name
ToolError_no_name_check(checks_name, tool_name, node) ==
  IF node = PyNone THEN ErrNoActive ELSE "none"

\* the exception the checks before the request raise, "none" if they pass;
\* checks_name is TRUE for invoke_tool
ToolError(checks_name, tool_name, node) ==
  IF checks_name /\ tool_name = <<>> THEN ErrToolName
  ELSE IF node = PyNone THEN ErrNoActive
  ELSE "none"

list_tools(node_name) ==
  /\ pc = "ready"
  /\ UNCHANGED <<clients, writer, chat>>
  /\ LET node == Resolve(nodes, active_name, node_name)
         err  == ToolError(FALSE, <<>>, node)
     IN IF err # "none"
          THEN /\ http' = <<>>
               /\ tcall' = ToolCall("list_tools", <<>>, JNone, node_name, JNone,
                                    NoResponse, err, JNone)
               /\ call' = Call("list_tools", <<>>, <<>>, PyNone, err)
               /\ UNCHANGED pc
          ELSE /\ http' = <<Request("GET", node.url.s \o ToolsPath, node,
                                    FALSE, JNone, FALSE, JNone)>>
               /\ tcall' = ToolCall("list_tools", <<>>, JNone, node_name, JNone,
                                    NoResponse, "pending", JNone)
               /\ call' = Call("list_tools", <<>>, <<>>, PyNone, "pending")
               /\ pc' = "waiting"
  /\ UNCHANGED <<file, nodes, active_name>>

invoke_tool(tool_name, payload, node_name, context) ==
  /\ pc = "ready"
  /\ UNCHANGED <<clients, writer, chat>>
  /\ LET node == Resolve(nodes, active_name, node_name)
         err  == ToolError(TRUE, tool_name, node)
     IN IF err # "none"
          THEN /\ http' = <<>>
               /\ tcall' = ToolCall("invoke_tool", tool_name, payload, node_name,
                                    context, NoResponse, err, JNone)
               /\ call' = Call("invoke_tool", <<>>, <<>>, PyNone, err)
               /\ UNCHANGED pc
          ELSE /\ http' = <<Request("POST", node.url.s \o ToolsPath \o <<SLASH>> \o tool_name,
                                    node, TRUE, payload, JTruthy(context),
                                    IF JTruthy(context) THEN context ELSE JNone)>>
               /\ tcall' = ToolCall("invoke_tool", tool_name, payload, node_name,
                                    context, NoResponse, "pending", JNone)
               /\ call' = Call("invoke_tool", <<>>, <<>>, PyNone, "pending")
               /\ pc' = "waiting"
  /\ UNCHANGED <<file, nodes, active_name>>

Outcome(result, ret) == [result |-> result, ret |-> ret]

\* response.raise_for_status() raises HTTPError
raise_for_status(status) == status >= 400 /\ status < 600

\* a variant of ResponseJson that takes a body it cannot decode for null
ResponseJson_lenient(body) ==
  IF body.kind = "json" THEN Outcome("ok", body.value) ELSE Outcome("ok", JVal("null", 0))

\* response.json()
ResponseJson(body) ==
  IF body.kind = "json" THEN Outcome("ok", body.value) ELSE Outcome("JSONDecodeError", JNone)

\* a variant of InvokeReturn that decodes every body
InvokeReturn_always_json(body) == ResponseJson(body)

\* return response.json() if response.content else {"ok": True}
InvokeReturn(body) ==
  IF body.kind # "empty" THEN ResponseJson(body) ELSE Outcome("ok", OkTrue)

\* a variant of ListToolsReturn that returns the member "tools" whatever
\* its type
ListToolsReturn_tools_any(body) ==
  LET p == ResponseJson(body)
  IN IF p.result # "ok" THEN p
     ELSE IF p.ret.t = "dict" /\ p.ret.tools_t # "absent"
       THEN Outcome("ok", JVal(p.ret.tools_t, p.ret.tools_n))
       ELSE Outcome("ok", IF p.ret.t = "list" THEN p.ret ELSE JVal("list", 0))

\* the end of list_tools: the list, or the list under "tools", else []
ListToolsReturn(body) ==
  LET p == ResponseJson(body)
  IN IF p.result # "ok" THEN p
     ELSE LET tools == IF p.ret.t = "dict" /\ p.ret.tools_t # "absent"
                         THEN JVal(p.ret.tools_t, p.ret.tools_n)
                         ELSE p.ret
          IN Outcome("ok", IF tools.t = "list" THEN tools ELSE JVal("list", 0))

\* what the call makes of what came back
CallOutcome(op, resp) ==
  IF resp.kind = "error" THEN Outcome("ConnectionError", JNone)
  ELSE IF raise_for_status(resp.status) THEN Outcome("HTTPError", JNone)
  ELSE IF op = "invoke_tool" THEN InvokeReturn(resp.body)
  ELSE ListToolsReturn(resp.body)

\* a variant of Respond that sends the request again after a failure
Respond_retry(resp) ==
  /\ pc = "waiting"
  /\ UNCHANGED <<clients, writer, chat>>
  /\ LET o == CallOutcome(tcall.op, resp)
     IN IF o.result \in {"ConnectionError", "HTTPError"} /\ Len(http) < 2
          THEN /\ http' = Append(http, http[1])
               /\ UNCHANGED <<tcall, call, pc>>
          ELSE /\ tcall' = [tcall EXCEPT !.response = resp, !.result = o.result, !.ret = o.ret]
               /\ call' = [call EXCEPT !.result = o.result]
               /\ pc' = "ready"
               /\ UNCHANGED http
  /\ UNCHANGED <<file, nodes, active_name>>

\* requests.get / requests.post returns or raises, and the call ends
Respond(resp) ==
  /\ pc = "waiting"
  /\ UNCHANGED <<clients, writer, chat>>
  /\ LET o == CallOutcome(tcall.op, resp)
     IN /\ tcall' = [tcall EXCEPT !.response = resp, !.result = o.result, !.ret = o.ret]
        /\ call' = [call EXCEPT !.result = o.result]
  /\ pc' = "ready"
  /\ UNCHANGED <<file, nodes, active_name, http>>

\* the registries of the sessions that call tools:
\* {"active": "a", "nodes": {"a": {h, "t"}, "A": {g, null}, "B": {k, ""}}},
\* {"active": "A", "nodes": {"a": {h, "t"}, "B": {g, "u"}}} (no node "A"),
\* and no file
HttpFiles ==
  { File("obj", Str(<<97>>), "obj",
         << Entry(<<97>>, TRUE, Str(<<97>>), Str(<<104>>), Str(<<116>>)),
            Entry(<<65>>, TRUE, Str(<<65>>), Str(<<103>>), PyNone),
            Entry(<<66>>, TRUE, Str(<<66>>), Str(<<107>>), Str(<<>>)) >>),
    File("obj", Str(<<65>>), "obj",
         << Entry(<<97>>, TRUE, Str(<<97>>), Str(<<104>>), Str(<<116>>)),
            Entry(<<66>>, TRUE, Str(<<66>>), Str(<<103>>), Str(<<117>>)) >>),
    File("missing", PyNone, "absent", <<>>) }

InitHttp ==
  /\ file \in HttpFiles
  /\ nodes = <<>>
  /\ active_name = PyNone
  /\ pc = "start"
  /\ call = [op |-> "none", name |-> <<>>, url |-> <<>>, token |-> PyNone,
             result |-> "ok", pre_nodes |-> <<>>, pre_active |-> PyNone,
             pre_file |-> file]
  /\ http = <<>>
  /\ tcall = NoToolCall
  /\ clients = NoClients
  /\ writer = 0
  /\ chat = NoChat

NextHttp ==
  \/ Construct
  \/ GetActiveNode
  \/ \E name \in NameArgs : remove_node(name)
  \/ \E name \in NameArgs : set_active(name)
  \/ \E node_name \in NodeNameArgs : list_tools(node_name)
  \/ \E tool_name \in ToolNames, payload \in Payloads,
        node_name \in NodeNameArgs, context \in Contexts :
       invoke_tool(tool_name, payload, node_name, context)
  \/ \E resp \in Responses : Respond(resp)

\* a session that loads its registry, selects and removes nodes and calls
\* tools
SpecHttp == InitHttp /\ [][NextHttp]_vars

(***************************************************************************)
(* A client that starts without a file                                     *)
(***************************************************************************)
InitEmpty ==
  /\ file = File("missing", PyNone, "absent", <<>>)
  /\ nodes = <<>>
  /\ active_name = PyNone
  /\ pc = "start"
  /\ call = [op |-> "none", name |-> <<>>, url |-> <<>>, token |-> PyNone,
             result |-> "ok", pre_nodes |-> <<>>, pre_active |-> PyNone,
             pre_file |-> file]
  /\ http = <<>>
  /\ tcall = NoToolCall
  /\ clients = NoClients
  /\ writer = 0
  /\ chat = NoChat

\* the calls of Spec on a registry that starts empty
SpecEmpty == InitEmpty /\ [][Next]_vars

(***************************************************************************)
(* The three mutating methods as functions of the client's attributes:     *)
(* the exception they raise before they change anything ("none" if they    *)
(* do not) and the attributes at the call of _save_state.                  *)
(***************************************************************************)
Mutation(error, ns, a) == [error |-> error, nodes |-> ns, active_name |-> a]

AddNode(ns, a, name, url, token) ==
  IF name = <<>> \/ url = <<>>
    THEN Mutation("ValueError: required", ns, a)
    ELSE Mutation("none",
                  DictSet(ns, MCPNode(name, Str(rstrip(url)), token)),
                  ActiveAfterAdd(a, name))

RemoveNode(ns, a, name) ==
  IF ~InNodes(ns, name)
    THEN Mutation("ValueError: not found", ns, a)
    ELSE Mutation("none", DictDel(ns, name), ActiveAfterRemove(DictDel(ns, name), a, name))

SetActive(ns, a, name) ==
  IF ~InNodes(ns, name)
    THEN Mutation("ValueError: not found", ns, a)
    ELSE Mutation("none", ns, Str(name))

(***************************************************************************)
(* Writes that fail.  _save_state creates the directory, opens the file    *)
(* for writing, which empties it, and dumps the JSON text: io says how far *)
(* it gets.                                                                *)
(***************************************************************************)
\* "ok"; "open": makedirs or open raises OSError, the file is untouched;
\* "dump": the write raises after open has emptied the file
IO == {"ok", "open", "dump"}

\* the names, urls of the calls whose writes can fail: "a", "B", ""; "h", "h/"
IONames == {<<97>>, <<66>>, <<>>}

IOUrls == {<<104>>, <<104, 47>>}

\* the file _save_state leaves
Written(ns, a, io) ==
  CASE io = "ok"   -> save_state(ns, a)
    [] io = "open" -> file
    [] io = "dump" -> File("corrupt", PyNone, "absent", <<>>)

\* a mutating method whose _save_state ends as io says: the attributes are
\* assigned before _save_state is called, and nothing catches its OSError
Mutate(op, name, url, token, m, io) ==
  /\ pc = "ready"
  /\ UNCHANGED <<clients, writer, chat, http, tcall, pc>>
  /\ IF m.error # "none"
       THEN /\ call' = Call(op, name, url, token, m.error)
            /\ UNCHANGED <<file, nodes, active_name>>
       ELSE /\ nodes' = m.nodes
            /\ active_name' = m.active_name
            /\ file' = Written(m.nodes, m.active_name, io)
            /\ call' = Call(op, name, url, token, IF io = "ok" THEN "ok" ELSE "OSError")

add_node_io(name, url, token, io) ==
  Mutate("add_node", name, url, token, AddNode(nodes, active_name, name, url, token), io)

remove_node_io(name, io) ==
  Mutate("remove_node", name, <<>>, PyNone, RemoveNode(nodes, active_name, name), io)

set_active_io(name, io) ==
  Mutate("set_active", name, <<>>, PyNone, SetActive(nodes, active_name, name), io)

NextIO ==
  \/ Construct
  \/ Restart
  \/ \E name \in IONames, url \in IOUrls, io \in IO : add_node_io(name, url, PyNone, io)
  \/ \E name \in IONames, io \in IO : remove_node_io(name, io)
  \/ \E name \in IONames, io \in IO : set_active_io(name, io)

\* a client on a file system where writes can fail
SpecIO == InitEmpty /\ [][NextIO]_vars

(***************************************************************************)
(* Two processes, each with its own client, on one file                    *)
(***************************************************************************)
\* the urls the two processes register: "h" and "g"
TwoUrls == {<<104>>, <<103>>}

\* the names they register and look for: "a", "B"
TwoNames == {<<97>>, <<66>>}

\* the files the processes find: none, and {"active": "a", "nodes": {"a": ..}}
TwoFiles == {File("missing", PyNone, "absent", <<>>), File("obj", Str(<<97>>), "obj", <<NodeA>>)}

InitTwo ==
  /\ file \in TwoFiles
  /\ clients = NoClients
  /\ writer = 0
  /\ nodes = <<>>
  /\ active_name = PyNone
  /\ pc = "start"
  /\ call = [op |-> "none", name |-> <<>>, url |-> <<>>, token |-> PyNone,
             result |-> "ok", pre_nodes |-> <<>>, pre_active |-> PyNone,
             pre_file |-> file]
  /\ http = <<>>
  /\ tcall = NoToolCall
  /\ chat = NoChat

\* len() of the JSON text of a string or of null
TextOf(v) == IF v.t = "str" THEN Len(v.s) + 2 ELSE 4

\* the length of the members of "nodes" in the text json.dump writes with
\* indent=2, without the separators between them
RECURSIVE MembersLen(_)
MembersLen(entries) ==
  IF entries = <<>> THEN 0
  ELSE 64 + 2 * Len(Head(entries).key) + TextOf(Head(entries).url)
          + TextOf(Head(entries).token) + MembersLen(Tail(entries))

\* the length of a file.  A file that is not JSON keeps, for its length,
\* the fields of the text whose bytes it holds; an emptied file has none.
TextLen(f) ==
  IF f.nodesKind # "obj" THEN 0
  ELSE IF f.nodes = <<>> THEN 31 + TextOf(f.active)
  ELSE 35 + TextOf(f.active) + MembersLen(f.nodes) + 2 * (Len(f.nodes) - 1)

\* open(path, "w") has emptied the file
Emptied == File("corrupt", PyNone, "absent", <<>>)

\* the file after the text own was written from offset 0 over cur: the
\* bytes of cur behind the end of own stay, and the whole is not JSON
Overlay(own, cur) ==
  IF TextLen(cur) > TextLen(own)
    THEN File("corrupt", cur.active, cur.nodesKind, cur.nodes)
    ELSE own

\* process c constructs its client (and constructs it again when it is
\* restarted): MCPClient() reads the file as it is now
client_init(c) ==
  /\ clients[c].pc \in {"start", "ready"}
  /\ LET l == load_state(file)
     IN /\ ~l.raised
        /\ clients' = [clients EXCEPT ![c] = ClientOf("ready", l.nodes, l.active_name)]
  /\ UNCHANGED <<file, writer, nodes, active_name, pc, call, http, tcall, chat>>

\* a mutating method of the client of process c up to the open() of
\* _save_state: the attributes are assigned and the file is emptied
client_mutate(c, m) ==
  /\ clients[c].pc = "ready"
  /\ UNCHANGED <<nodes, active_name, pc, call, http, tcall, chat, writer>>
  /\ IF m.error # "none"
       THEN UNCHANGED <<file, clients>>
       ELSE /\ clients' = [clients EXCEPT ![c] = ClientOf("writing", m.nodes, m.active_name)]
            /\ file' = Emptied

client_add_node(c, name, url, token) ==
  client_mutate(c, AddNode(clients[c].nodes, clients[c].active_name, name, url, token))

client_remove_node(c, name) ==
  client_mutate(c, RemoveNode(clients[c].nodes, clients[c].active_name, name))

client_set_active(c, name) ==
  client_mutate(c, SetActive(clients[c].nodes, clients[c].active_name, name))

\* the end of _save_state in process c: json.dump and the close of the
\* handle write the text from the handle's offset 0, and the method returns
client_write(c) ==
  /\ clients[c].pc = "writing"
  /\ file' = Overlay(save_state(clients[c].nodes, clients[c].active_name), file)
  /\ clients' = [clients EXCEPT ![c].pc = "ready"]
  /\ writer' = c
  /\ UNCHANGED <<nodes, active_name, pc, call, http, tcall, chat>>

NextTwo ==
  \/ \E c \in Procs : client_init(c)
  \/ \E c \in Procs, name \in TwoNames, url \in TwoUrls : client_add_node(c, name, url, PyNone)
  \/ \E c \in Procs, name \in TwoNames : client_remove_node(c, name)
  \/ \E c \in Procs, name \in TwoNames : client_set_active(c, name)
  \/ \E c \in Procs : client_write(c)

\* two processes that load, mutate and write in any interleaving of their
\* file operations
SpecTwo == InitTwo /\ [][NextTwo]_vars

(***************************************************************************)
(* The chat loop of src/chatbot.py: main reads one input per turn and      *)
(* hands it to the first branch whose test it passes.  The client of the   *)
(* loop is the module's mcp_client (file, nodes, active_name).             *)
(***************************************************************************)
\* the longest list of messages a turn still adds to
MaxMessages == 3

\* ord(" "), the whitespace of the inputs
SPACE == 32

\* s.startswith(p)
StartsWith(s, p) == Len(s) >= Len(p) /\ SubSeq(s, 1, Len(p)) = p

\* s[k:]
From(s, k) == SubSeq(s, k + 1, Len(s))

\* s.lstrip()
RECURSIVE lstrip(_)
lstrip(s) == IF s # <<>> /\ s[1] = SPACE THEN lstrip(Tail(s)) ELSE s

\* s.strip()
RECURSIVE strip(_)
strip(s) ==
  LET t == lstrip(s)
  IN IF t # <<>> /\ t[Len(t)] = SPACE THEN strip(SubSeq(t, 1, Len(t) - 1)) ELSE t

\* the length of the first word of s, s not starting with whitespace
RECURSIVE WordLen(_)
WordLen(s) == IF s = <<>> \/ s[1] = SPACE THEN 0 ELSE 1 + WordLen(Tail(s))

\* s.split(maxsplit=k), k = -1 for s.split(): the words of s; after k
\* splits the rest of s is the last piece, with its trailing whitespace
RECURSIVE split(_, _)
split(s, k) ==
  LET t == lstrip(s)
  IN IF t = <<>> THEN <<>>
     ELSE IF k = 0 THEN <<t>>
     ELSE <<SubSeq(t, 1, WordLen(t))>> \o split(From(t, WordLen(t)), k - 1)

\* the prefixes main tests, in the order of its tests
\* "/mcp"
CmdMcp == <<47, 109, 99, 112>>

\* "/mode"
CmdMode == <<47, 109, 111, 100, 101>>

\* "/apikey"
CmdApikey == <<47, 97, 112, 105, 107, 101, 121>>

\* "/model"
CmdModel == <<47, 109, 111, 100, 101, 108>>

\* "/copy"
CmdCopy == <<47, 99, 111, 112, 121>>

\* "/c"
CmdC == <<47, 99>>

\* the words of the commands
\* "exit"
W_exit == <<101, 120, 105, 116>>

\* "quit"
W_quit == <<113, 117, 105, 116>>

\* "clear"
W_clear == <<99, 108, 101, 97, 114>>

\* "history"
W_history == <<104, 105, 115, 116, 111, 114, 121>>

\* "agent"
W_agent == <<97, 103, 101, 110, 116>>

\* "help"
W_help == <<104, 101, 108, 112>>

\* "add"
W_add == <<97, 100, 100>>

\* "use"
W_use == <<117, 115, 101>>

\* "select"
W_select == <<115, 101, 108, 101, 99, 116>>

\* "remove"
W_remove == <<114, 101, 109, 111, 118, 101>>

\* "online"
W_online == <<111, 110, 108, 105, 110, 101>>

\* "offline"
W_offline == <<111, 102, 102, 108, 105, 110, 101>>

\* "set"
W_set == <<115, 101, 116>>

\* "default"
W_default == <<100, 101, 102, 97, 117, 108, 116>>

\* "set-default"
W_set_default == <<115, 101, 116, 45, 100, 101, 102, 97, 117, 108, 116>>

\* what the user types
Inputs ==
  { <<47, 99, 108, 101, 97, 114>>,   \* "/clear"
    <<47, 99, 111, 112, 121>>,   \* "/copy"
    <<47, 104, 101, 108, 112>>,   \* "/help"
    <<47, 101, 120, 105, 116>>,   \* "/exit"
    <<47, 97, 112, 105, 107, 101, 121, 32, 99, 108, 101, 97, 114>>,   \* "/apikey clear"
    <<47, 109, 111, 100, 101, 108>>,   \* "/model"
    <<47, 109, 111, 100, 101, 108, 32, 117, 115, 101, 32, 109>>,   \* "/model use m"
    <<47, 109, 111, 100, 101, 108, 32, 100, 101, 102, 97, 117, 108, 116, 32, 109>>,   \* "/model default m"
    <<47, 109, 111, 100, 101>>,   \* "/mode"
    <<47, 109, 111, 100, 101, 32, 111, 110, 108, 105, 110, 101>>,   \* "/mode online"
    <<47, 109, 111, 100, 101, 32, 111, 102, 102, 108, 105, 110, 101>>,   \* "/mode offline"
    <<47, 109, 111, 100, 101, 32, 111, 102, 102, 108, 105, 110, 101, 32, 97>>,   \* "/mode offline a"
    <<47, 109, 111, 100, 101, 32, 111, 102, 102, 108, 105, 110, 101, 32, 66>>,   \* "/mode offline B"
    <<47, 109, 99, 112, 32, 97, 100, 100, 32, 97, 32, 104>>,   \* "/mcp add a h"
    <<47, 109, 99, 112, 32, 97, 100, 100, 32, 66, 32, 104>>,   \* "/mcp add B h"
    <<47, 109, 99, 112, 32, 114, 101, 109, 111, 118, 101, 32, 97>>,   \* "/mcp remove a"
    <<47, 109, 99, 112, 32, 114, 101, 109, 111, 118, 101, 32, 66>>,   \* "/mcp remove B"
    <<47, 109, 99, 112, 32, 117, 115, 101, 32, 97>>,   \* "/mcp use a"
    <<47, 109, 99, 112, 32, 117, 115, 101, 32, 66>>,   \* "/mcp use B"
    <<120, 32, 123, 125>>,   \* "x {}"
    <<66, 32, 120, 32, 123, 125>>,   \* "B x {}"
    <<97, 32, 120, 32, 123>>,   \* "a x {"
    <<104, 105>> }   \* "hi"

\* the texts of the inputs that json.loads accepts: "{}"
JsonTexts == { <<123, 125>> }

\* the roles of the messages load_history returns when there is no history
\* file: the system prompt
NoHistory == << "system" >>

\* config_state["default_model"] at the start: none, or "m1"
DefaultModels == {PyNone, Str(<<109, 49>>)}

\* the registries the chat finds: no file, and {"active": "a", "nodes": {"a": ..}}
ChatFiles == {File("missing", PyNone, "absent", <<>>), File("obj", Str(<<97>>), "obj", <<NodeA>>)}

\* the branch of main that takes the input u: the first test u passes
Dispatch(u) ==
  IF StartsWith(lower(u), CmdMcp) THEN "handle_mcp_command"
  ELSE IF StartsWith(lower(u), CmdMode) THEN "handle_mode_command"
  ELSE IF StartsWith(lower(u), CmdApikey) THEN "handle_api_key_command"
  ELSE IF StartsWith(lower(u), CmdModel) THEN "handle_model_command"
  ELSE IF StartsWith(lower(u), CmdCopy) \/ StartsWith(lower(u), CmdC) THEN "handle_copy_command"
  ELSE IF StartsWith(u, <<SLASH>>)
    THEN LET words == split(From(u, 1), 1)
             cmd   == IF words = <<>> THEN <<>> ELSE lower(words[1])
         IN IF cmd \in {W_exit, W_quit} THEN "exit"
            ELSE IF cmd = W_clear THEN "clear"
            ELSE IF cmd = W_history THEN "history"
            ELSE IF cmd = W_agent THEN "agent"
            ELSE IF cmd = W_help THEN "help"
            ELSE "unknown"
  ELSE "text"

\* handle_mcp_command(raw, messages) on the registry: the call of the
\* client it makes ("no call" for the branches that make none or one that
\* does not write: list, tools, invoke, a usage message); the ValueError of
\* the client is caught
handle_mcp_command(raw, ns, a) ==
  LET command   == strip(raw)
      parts     == split(command, 1)
      action    == IF parts = <<>> THEN <<>> ELSE lower(parts[1])
      remainder == IF Len(parts) > 1 THEN parts[2] ELSE <<>>
      add_parts == split(remainder, -1)
  IN IF action = W_add /\ Len(add_parts) >= 2
       THEN AddNode(ns, a, add_parts[1], add_parts[2],
                    IF Len(add_parts) > 2 THEN Str(add_parts[3]) ELSE PyNone)
     ELSE IF action \in {W_use, W_select} /\ strip(remainder) # <<>>
       THEN SetActive(ns, a, strip(remainder))
     ELSE IF action = W_remove /\ strip(remainder) # <<>>
       THEN RemoveNode(ns, a, strip(remainder))
     ELSE Mutation("no call", ns, a)

Mode(mode, offline_node) == [mode |-> mode, offline_node |-> offline_node]

\* handle_mode_command(raw): chat_state["mode"] and ["offline_node"] after it
handle_mode_command(raw, st, ns, a) ==
  LET parts       == split(strip(raw), -1)
      target_mode == IF parts = <<>> THEN <<>> ELSE lower(parts[1])
      node_name   == IF Len(parts) > 1 THEN Str(parts[2]) ELSE a
  IN IF target_mode = W_online THEN Mode(MODE_ONLINE, PyNone)
     ELSE IF /\ target_mode = W_offline
             /\ Truthy(node_name)
             /\ ActiveInNodes(ns, node_name)
       THEN Mode(MODE_OFFLINE, node_name)
     ELSE Mode(st.mode, st.offline_node)

Model(model, default_model) == [model |-> model, default_model |-> default_model]

\* handle_model_command(raw): chat_state["model"] and
\* config_state["default_model"] after it
handle_model_command(raw, st) ==
  LET parts     == split(strip(raw), 1)
      action    == IF parts = <<>> THEN <<>> ELSE lower(parts[1])
      remainder == IF Len(parts) > 1 THEN strip(parts[2]) ELSE <<>>
  IN IF action \in {W_use, W_set} /\ remainder # <<>>
       THEN Model(remainder, st.default_model)
     ELSE IF action \in {W_default, W_set_default} /\ remainder # <<>>
       THEN Model(remainder, Str(remainder))
     ELSE Model(st.model, st.default_model)

\* a variant of OfflineCall that does not look for the node in the registry
OfflineCall_unchecked(u, offline_node, ns) ==
  LET parts       == split(strip(u), 2)
      node_name   == IF Len(parts) = 2 THEN offline_node ELSE Str(parts[1])
      payload_raw == parts[Len(parts)]
  IN IF Len(parts) < 2 THEN PyNone
     ELSE IF ~Truthy(node_name) THEN PyNone
     ELSE IF payload_raw \notin JsonTexts THEN PyNone
     ELSE node_name

\* handle_offline_input(u, messages) up to its call of invoke_tool: the
\* node_name of the call, PyNone when it returns before the call
OfflineCall(u, offline_node, ns) ==
  LET parts       == split(strip(u), 2)
      node_name   == IF Len(parts) = 2 THEN offline_node ELSE Str(parts[1])
      payload_raw == parts[Len(parts)]
  IN IF Len(parts) < 2 THEN PyNone
     ELSE IF ~Truthy(node_name) THEN PyNone
     ELSE IF ~ActiveInNodes(ns, node_name) THEN PyNone
     ELSE IF payload_raw \notin JsonTexts THEN PyNone
     ELSE node_name

InitChat ==
  /\ file \in ChatFiles
  /\ nodes = <<>>
  /\ active_name = PyNone
  /\ pc = "start"
  /\ call = [op |-> "none", name |-> <<>>, url |-> <<>>, token |-> PyNone,
             result |-> "ok", pre_nodes |-> <<>>, pre_active |-> PyNone,
             pre_file |-> file]
  /\ http = <<>>
  /\ tcall = NoToolCall
  /\ clients = NoClients
  /\ writer = 0
  /\ chat = NoChat

\* what the record of the last input keeps of the state it found
PreOf(st) == ChatPre(st.mode, st.offline_node, st.model, st.default_model, st.messages)

\* the start of the program: the module constructs mcp_client and reads the
\* configuration, main reads the history
Launch(default_model) ==
  /\ pc = "start"
  /\ LET l == load_state(file)
     IN /\ ~l.raised
        /\ nodes' = l.nodes
        /\ active_name' = l.active_name
  /\ chat' = ChatState(MODE_ONLINE, PyNone,
                       IF Truthy(default_model) THEN default_model.s ELSE MODEL,
                       default_model, NoHistory, <<>>, "none", PyNone, PreOf(chat))
  /\ pc' = "ready"
  /\ UNCHANGED <<file, call, http, tcall, clients, writer>>

\* one turn of main on an input that one of the command branches takes
Command(u) ==
  /\ pc = "ready"
  /\ Dispatch(u) # "text"
  /\ LET h  == Dispatch(u)
         m  == IF h = "handle_mcp_command"
                 THEN handle_mcp_command(From(u, 4), nodes, active_name)
                 ELSE Mutation("no call", nodes, active_name)
         md == IF h = "handle_mode_command"
                 THEN handle_mode_command(From(u, 5), chat, nodes, active_name)
                 ELSE Mode(chat.mode, chat.offline_node)
         mo == IF h = "handle_model_command"
                 THEN handle_model_command(From(u, 6), chat)
                 ELSE Model(chat.model, chat.default_model)
         ms == IF h = "clear" THEN <<chat.messages[1]>> ELSE chat.messages
     IN /\ nodes' = m.nodes
        /\ active_name' = m.active_name
        /\ file' = IF m.error = "none" THEN save_state(m.nodes, m.active_name) ELSE file
        /\ chat' = ChatState(md.mode, md.offline_node, mo.model, mo.default_model,
                             ms, u, h, PyNone, PreOf(chat))
        /\ pc' = IF h = "exit" THEN "exited" ELSE "ready"
  /\ UNCHANGED <<call, http, tcall, clients, writer>>

\* one turn of main on an input that is no command, in offline mode:
\* handle_offline_input; ok says that invoke_tool returned a result
OfflineInput(u, ok) ==
  /\ pc = "ready"
  /\ Dispatch(u) = "text"
  /\ chat.mode = MODE_OFFLINE
  /\ Len(chat.messages) < MaxMessages
  /\ LET node_name == OfflineCall(u, chat.offline_node, nodes)
         ms == IF node_name = PyNone THEN chat.messages
               ELSE IF ok THEN chat.messages \o <<"user", "assistant">>
               ELSE Append(chat.messages, "user")
     IN chat' = ChatState(chat.mode, chat.offline_node, chat.model, chat.default_model,
                          ms, u, "handle_offline_input", node_name, PreOf(chat))
  /\ UNCHANGED <<file, nodes, active_name, pc, call, http, tcall, clients, writer>>

\* one turn of main on an input that is no command, in online mode:
\* stream_completion; reply says that it returned a reply that is not empty
OnlineInput(u, reply) ==
  /\ pc = "ready"
  /\ Dispatch(u) = "text"
  /\ chat.mode # MODE_OFFLINE
  /\ Len(chat.messages) < MaxMessages
  /\ chat' = ChatState(chat.mode, chat.offline_node, chat.model, chat.default_model,
                       IF reply THEN chat.messages \o <<"user", "assistant">>
                                ELSE Append(chat.messages, "user"),
                       u, "stream_completion", PyNone, PreOf(chat))
  /\ UNCHANGED <<file, nodes, active_name, pc, call, http, tcall, clients, writer>>

NextChat ==
  \/ \E default_model \in DefaultModels : Launch(default_model)
  \/ \E u \in Inputs : Command(u)
  \/ \E u \in Inputs, ok \in BOOLEAN : OfflineInput(u, ok)
  \/ \E u \in Inputs, reply \in BOOLEAN : OnlineInput(u, reply)

\* a session of the chat loop
SpecChat == InitChat /\ [][NextChat]_vars

(***************************************************************************)
(* Helpers of the properties                                               *)
(***************************************************************************)
\* the last call was a mutating operation that returned without error
Mutated == call.op \in {"add_node", "remove_node", "set_active"} /\ call.result = "ok"

\* s is u without its trailing '/' characters, said without rstrip: s is a
\* prefix of u, does not end in '/', and u continues with '/' only
StrippedOf(s, u) ==
  /\ Len(s) <= Len(u)
  /\ \A i \in 1..Len(s) : s[i] = u[i]
  /\ \A i \in (Len(s) + 1)..Len(u) : u[i] = SLASH
  /\ (s # <<>> => s[Len(s)] # SLASH)

\* u with one trailing '/' removed when it ends in one
WithoutOneSlash(u) ==
  IF u # <<>> /\ u[Len(u)] = SLASH THEN SubSeq(u, 1, Len(u) - 1) ELSE u

\* the positions of the nodes named name
Positions(ns, name) == {i \in DOMAIN ns : ns[i].name = name}

(***************************************************************************)
(* C1..C10                                                                 *)
(***************************************************************************)
\* C1: in every reachable state the active name is unset or is the name of
\* a node of the registry.
C1_ActiveIsRegistered == active_name = PyNone \/ ActiveInNodes(nodes, active_name)

\* the active node was removed while other nodes remained
C1_Witness ==
  /\ call.op = "remove_node" /\ call.result = "ok"
  /\ call.pre_active = Str(call.name)
  /\ nodes # <<>>

\* C2: after every add_node, remove_node or set_active that returns without
\* error the file holds exactly the registry in memory: one member per node,
\* with its name, url and token, and the active name (null when none).
C2_FileEqualsMemory ==
  Mutated =>
    /\ file.kind = "obj" /\ file.nodesKind = "obj"
    /\ Len(file.nodes) = Len(nodes)
    /\ \A i \in DOMAIN nodes :
         /\ file.nodes[i].isDict
         /\ file.nodes[i].key = nodes[i].name
         /\ file.nodes[i].name = Str(nodes[i].name)
         /\ file.nodes[i].url = nodes[i].url
         /\ file.nodes[i].token = nodes[i].token
    /\ file.active = active_name

\* a removal rewrote a file of three nodes, one of them with a token
C2_Witness ==
  /\ call.op = "remove_node" /\ call.result = "ok"
  /\ Len(call.pre_file.nodes) = 3 /\ Len(file.nodes) = 2
  /\ \E i \in DOMAIN nodes : nodes[i].token # PyNone

\* C3: after a mutating call, a new client constructed on the file has the
\* same list_nodes() (names, urls, tokens, order) and the same active name.
C3_RoundTrip ==
  Mutated =>
    LET l == load_state(file)
    IN /\ ~l.raised
       /\ list_nodes(l.nodes) = list_nodes(nodes)
       /\ l.active_name = active_name

\* the files the claim C4 calls missing, invalid or of the wrong shape
Malformed(f) ==
  \/ f.kind # "obj"
  \/ f.nodesKind \notin {"absent", "obj"}
  \/ f.active.t \notin {"None", "str"}

\* C4: constructing a client never raises because of the file, and on a
\* missing, invalid or wrongly shaped file it leaves an empty registry with
\* no active node.
C4_LoadNeverRaises ==
  call.op \in {"init", "restart"} =>
    /\ call.result = "ok"
    /\ pc = "ready"
    /\ (Malformed(call.pre_file) => nodes = <<>> /\ active_name = PyNone)

\* C5 as claimed: after add_node(n, u, t) list_nodes() has exactly one node
\* named n, with token t and with url u less ONE trailing '/'.
C5_OneSlashRemoved ==
  (call.op = "add_node" /\ call.result = "ok") =>
    LET l == list_nodes(nodes)
    IN /\ Cardinality(Positions(l, call.name)) = 1
       /\ NodeOf(l, call.name).token = call.token
       /\ NodeOf(l, call.name).url = Str(WithoutOneSlash(call.url))

\* C5 as amended: after add_node(n, u, t) list_nodes() has exactly one node
\* named n, with token t and with url u less ALL its trailing '/'.
C5_AllSlashesRemoved ==
  (call.op = "add_node" /\ call.result = "ok") =>
    LET l == list_nodes(nodes)
    IN /\ Cardinality(Positions(l, call.name)) = 1
       /\ NodeOf(l, call.name).token = call.token
       /\ NodeOf(l, call.name).url.t = "str"
       /\ StrippedOf(NodeOf(l, call.name).url.s, call.url)

\* add_node("..", "h//", ..) returned
C5_Witness ==
  /\ call.op = "add_node" /\ call.result = "ok"
  /\ call.url = <<104, 47, 47>>
  /\ InNodes(nodes, call.name)

\* C6: every node of the registry has a non-empty url.
C6_UrlNonEmpty == \A i \in DOMAIN nodes : Truthy(nodes[i].url)

\* C7: add_node with a registered name replaces url and token of that node,
\* keeps the number of nodes, keeps every other node, and names stay unique.
C7_Overwrite ==
  /\ \A i, j \in DOMAIN nodes : nodes[i].name = nodes[j].name => i = j
  /\ (call.op = "add_node" /\ call.result = "ok" /\ InNodes(call.pre_nodes, call.name)) =>
       /\ Len(list_nodes(nodes)) = Len(list_nodes(call.pre_nodes))
       /\ NodeOf(nodes, call.name).token = call.token
       /\ StrippedOf(NodeOf(nodes, call.name).url.s, call.url)
       /\ \A i \in DOMAIN call.pre_nodes :
            call.pre_nodes[i].name # call.name =>
              /\ InNodes(nodes, call.pre_nodes[i].name)
              /\ NodeOf(nodes, call.pre_nodes[i].name) = call.pre_nodes[i]

\* a node with token "t" and another url was overwritten without a token,
\* next to another node
C7_Witness ==
  /\ call.op = "add_node" /\ call.result = "ok"
  /\ InNodes(call.pre_nodes, call.name)
  /\ NodeOf(call.pre_nodes, call.name).token = Str(<<116>>)
  /\ NodeOf(call.pre_nodes, call.name).url # NodeOf(nodes, call.name).url
  /\ call.token = PyNone
  /\ Len(nodes) >= 2

\* C8: a successful add_node(n, ..) makes n active when no active node was
\* set, and leaves the active name unchanged when one was set.
C8_ActiveAfterAdd ==
  (call.op = "add_node" /\ call.result = "ok") =>
    /\ (call.pre_active = PyNone => active_name = Str(call.name))
    /\ (call.pre_active # PyNone => active_name = call.pre_active)

\* a node was added, or the active node overwritten, while a node was active
C8_Witness ==
  /\ call.op = "add_node" /\ call.result = "ok"
  /\ call.pre_active # PyNone
  /\ call.pre_active # Str(call.name)
  /\ ~InNodes(call.pre_nodes, call.name)

\* C9: removing the active node makes a remaining node active (the other
\* node when one other exists) and leaves no active node only when the
\* registry is empty; after removing the only node get_active_node() is None.
C9_FallbackAfterRemove ==
  (call.op = "remove_node" /\ call.result = "ok") =>
    /\ (nodes = <<>> => get_active_node(nodes, active_name) = PyNone)
    /\ (call.pre_active = Str(call.name) =>
          /\ (nodes = <<>> => active_name = PyNone)
          /\ (nodes # <<>> => ActiveInNodes(nodes, active_name))
          /\ (Len(nodes) = 1 => active_name = Str(nodes[1].name)
                                  /\ get_active_node(nodes, active_name) = nodes[1]))

\* the active one of two nodes was removed
C9_Witness ==
  /\ call.op = "remove_node" /\ call.result = "ok"
  /\ call.pre_active = Str(call.name)
  /\ Len(call.pre_nodes) = 2
  /\ Len(nodes) = 1

\* C10: set_active and remove_node of a name that is not registered fail
\* with the not-found error and leave nodes, active name and file as they
\* were.
C10_NotFoundNoEffect ==
  (call.op \in {"set_active", "remove_node"} /\ ~InNodes(call.pre_nodes, call.name)) =>
    /\ call.result = "ValueError: not found"
    /\ nodes = call.pre_nodes
    /\ active_name = call.pre_active
    /\ file = call.pre_file

\* set_active of an unregistered name on a registry with an active node
C10_Witness ==
  /\ call.op = "set_active" /\ call.result = "ValueError: not found"
  /\ call.name # <<>>
  /\ call.pre_active # PyNone

(***************************************************************************)
(* C11..C20                                                                *)
(***************************************************************************)
\* C11: add_node with an empty name or an empty url fails with the
\* invalid-argument error and leaves nodes, active name and file as they
\* were (a missing file stays missing: nothing is written).
C11_InvalidArgumentNoEffect ==
  (call.op = "add_node" /\ (call.name = <<>> \/ call.url = <<>>)) =>
    /\ call.result = "ValueError: required"
    /\ nodes = call.pre_nodes
    /\ active_name = call.pre_active
    /\ file = call.pre_file

\* add_node("a", "") was refused by a client that has not written its file
C11_Witness ==
  /\ call.op = "add_node" /\ call.result = "ValueError: required"
  /\ call.name # <<>> /\ call.url = <<>>
  /\ file.kind = "missing"

\* the key of the claimed order, said without lower: every capital letter
\* counts as its small letter
FoldCase(s) == [i \in DOMAIN s |-> IF s[i] \in 65..90 THEN s[i] + 32 ELSE s[i]]

\* C12: list_nodes() returns every node of the registry exactly once, in
\* ascending order of the names compared without case, and the call changes
\* neither nodes, active name nor file.
C12_ListNodesSorted ==
  LET l == list_nodes(nodes)
  IN /\ Len(l) = Len(nodes)
     /\ \A i \in DOMAIN nodes : Cardinality({j \in DOMAIN l : l[j] = nodes[i]}) = 1
     /\ \A i, j \in DOMAIN l :
          i < j => ~StrLess(FoldCase(l[j].name), FoldCase(l[i].name))
     /\ (call.op = "list_nodes" =>
           /\ nodes = call.pre_nodes
           /\ active_name = call.pre_active
           /\ file = call.pre_file)

\* list_nodes() was called on three nodes registered in the order B, a, ..
C12_Witness ==
  /\ call.op = "list_nodes"
  /\ Len(nodes) = 3
  /\ nodes[1].name = <<66>> /\ nodes[2].name = <<97>>
  /\ list_nodes(nodes)[1].name # <<66>>

\* the last call was list_tools or invoke_tool
ToolCalled == tcall.op \in {"list_tools", "invoke_tool"}

\* C13: invoke_tool with an empty tool name fails with the invalid-argument
\* error, and no call that fails on its arguments or on the resolution of
\* its node has issued a request.
C13_ErrorsBeforeRequest ==
  ToolCalled =>
    /\ (tcall.op = "invoke_tool" /\ tcall.tool_name = <<>> =>
          tcall.result = ErrToolName /\ http = <<>> /\ pc # "waiting")
    /\ (tcall.result \in {ErrToolName, ErrNoActive} => http = <<>> /\ pc # "waiting")

\* invoke_tool("", ..) named a registered node while a node was active
C13_Witness ==
  /\ tcall.op = "invoke_tool" /\ tcall.tool_name = <<>>
  /\ tcall.result = ErrToolName
  /\ Truthy(tcall.node_name) /\ InNodes(nodes, tcall.node_name.s)
  /\ active_name # PyNone

\* C14: a call with an explicit node_name that is not registered fails with
\* a not-found error that differs from the no-active-node error, and issues
\* no request (so does not fall back to the active node).
C14_NotFoundKind ==
  (/\ ToolCalled
   /\ Truthy(tcall.node_name) /\ ~InNodes(nodes, tcall.node_name.s)
   /\ (tcall.op = "invoke_tool" => tcall.tool_name # <<>>)) =>
    /\ IsValueError(tcall.result)
    /\ tcall.result # ErrNoActive
    /\ http = <<>>

\* C15: with no active node and no node_name, list_tools and invoke_tool
\* (tool name not empty) fail with the no-active-node error and issue no
\* request.
C15_NoActiveNode ==
  (/\ ToolCalled
   /\ tcall.node_name = PyNone
   /\ active_name = PyNone
   /\ (tcall.op = "invoke_tool" => tcall.tool_name # <<>>)) =>
    /\ tcall.result = ErrNoActive
    /\ http = <<>>
    /\ pc # "waiting"

\* invoke_tool("x", ..) without node_name on a registry with nodes and no
\* active node
C15_Witness ==
  /\ tcall.op = "invoke_tool" /\ tcall.tool_name # <<>>
  /\ tcall.node_name = PyNone
  /\ active_name = PyNone
  /\ nodes # <<>>

\* the url of the request of the last call for the node n
UrlFor(n) ==
  IF tcall.op = "list_tools"
    THEN n.url.s \o <<47, 116, 111, 111, 108, 115>>
    ELSE n.url.s \o <<47, 116, 111, 111, 108, 115, 47>> \o tcall.tool_name

\* C16: the request of list_tools is GET {url}/tools and that of invoke_tool
\* POST {url}/tools/{tool_name}, url being that of the registered node_name
\* when one is given and that of the active node when none is.
C16_Resolution ==
  (ToolCalled /\ http # <<>>) =>
    /\ http[1].method = (IF tcall.op = "list_tools" THEN "GET" ELSE "POST")
    /\ (Truthy(tcall.node_name) =>
          /\ InNodes(nodes, tcall.node_name.s)
          /\ http[1].url = UrlFor(NodeOf(nodes, tcall.node_name.s)))
    /\ (tcall.node_name = PyNone =>
          /\ ActiveInNodes(nodes, active_name)
          /\ http[1].url = UrlFor(NodeOf(nodes, active_name.s)))

\* invoke_tool named a registered node that is not the active one
C16_Witness ==
  /\ tcall.op = "invoke_tool" /\ http # <<>>
  /\ Truthy(tcall.node_name)
  /\ active_name # PyNone /\ active_name # tcall.node_name
  /\ NodeOf(nodes, tcall.node_name.s).url # NodeOf(nodes, active_name.s).url

\* the last call has ended with what came back
Responded == ToolCalled /\ tcall.response.kind \in {"error", "response"}

C18_InvokeReturn ==
  (/\ tcall.op = "invoke_tool" /\ Responded
   /\ tcall.response.kind = "response" /\ tcall.response.status \in 200..299) =>
    /\ (tcall.response.body.kind = "empty" =>
          tcall.result = "ok" /\ tcall.ret = JDict(1, "absent", 0))
    /\ (tcall.response.body.kind = "json" =>
          tcall.result = "ok" /\ tcall.ret = tcall.response.body.value)

\* invoke_tool got a 204 without body
C18_Witness ==
  /\ tcall.op = "invoke_tool" /\ Responded
  /\ tcall.response.kind = "response" /\ tcall.response.status = 204
  /\ tcall.response.body.kind = "empty"
  /\ tcall.result = "ok"

\* C19: a 2xx response whose body is not JSON makes the call fail with the
\* decode error, which the caller reports as an error and not as a network
\* error, while transport failures and 4xx/5xx are reported as network
\* errors.
C19_MalformedResponse ==
  Responded =>
    /\ (/\ tcall.response.kind = "response"
        /\ tcall.response.status \in 200..299
        /\ tcall.response.body.kind = "invalid") =>
         /\ tcall.result = "JSONDecodeError"
         /\ tcall.ret = JNone
         /\ ReportedAs(tcall.result) = "error"
    /\ (tcall.result \in {"ConnectionError", "HTTPError"} =>
          ReportedAs(tcall.result) = "network error")

\* list_tools got a 200 with a body that is not JSON
C19_Witness ==
  /\ tcall.op = "list_tools" /\ Responded
  /\ tcall.response.kind = "response" /\ tcall.response.status = 200
  /\ tcall.response.body.kind = "invalid"

\* the request r goes to the url of the node n
AddressedTo(r, n) ==
  LET base == n.url.s \o <<47, 116, 111, 111, 108, 115>>
  IN Len(r.url) >= Len(base) /\ SubSeq(r.url, 1, Len(base)) = base

\* "Bearer <token>" for the token tok
BearerOf(tok) == Str(<<66, 101, 97, 114, 101, 114, 32>> \o tok.s)

\* C20 as claimed: a request to a node has the header Authorization: Bearer
\* <token> with the token of that node exactly when its token is not null,
\* and never the token of another node.
C20_BearerWhenNotNull ==
  \A k \in DOMAIN http : \A i \in DOMAIN nodes :
    AddressedTo(http[k], nodes[i]) =>
      /\ (nodes[i].token # PyNone => http[k].authorization = BearerOf(nodes[i].token))
      /\ (nodes[i].token = PyNone => http[k].authorization = PyNone)
      /\ \A j \in DOMAIN nodes :
           (nodes[j].token # nodes[i].token /\ nodes[j].token # PyNone) =>
             http[k].authorization # BearerOf(nodes[j].token)

\* C20 as amended: a request to a node has the header Authorization: Bearer
\* <token> with the token of that node exactly when its token is a
\* non-empty string, and never the token of another node.
C20_BearerWhenNonEmpty ==
  \A k \in DOMAIN http : \A i \in DOMAIN nodes :
    AddressedTo(http[k], nodes[i]) =>
      /\ ((nodes[i].token.t = "str" /\ nodes[i].token.s # <<>>) =>
            http[k].authorization = BearerOf(nodes[i].token))
      /\ ((nodes[i].token = PyNone \/ nodes[i].token = Str(<<>>)) =>
            http[k].authorization = PyNone)
      /\ \A j \in DOMAIN nodes :
           (nodes[j].token # nodes[i].token /\ nodes[j].token # PyNone) =>
             http[k].authorization # BearerOf(nodes[j].token)

\* a request went with the token "t" while another node has the token "u"
C20_Witness ==
  /\ http # <<>>
  /\ http[1].authorization = BearerOf(Str(<<116>>))
  /\ \E j \in DOMAIN nodes : nodes[j].token = Str(<<117>>)

(***************************************************************************)
(* C21..C30                                                                *)
(***************************************************************************)
\* invoke_tool has issued its request
Invoked == tcall.op = "invoke_tool" /\ http # <<>>

\* C21 as claimed: the body of the request of invoke_tool has the caller's
\* payload as "input", the caller's context as "context" whenever the
\* context is not None (an empty object included), and no "context"
\* otherwise.
C21_ContextWhenNotNone ==
  Invoked =>
    /\ http[1].has_body
    /\ http[1].input = tcall.payload
    /\ (tcall.context.t # "None" =>
          http[1].has_context /\ http[1].context = tcall.context)
    /\ (tcall.context.t = "None" => ~http[1].has_context)

\* the values bool() takes for false: None, null, false, 0, "", [] and {}
Falsy(v) ==
  \/ v.t \in {"None", "null"}
  \/ v.t \in {"num", "bool", "str", "list"} /\ v.n = 0
  \/ v.t = "dict" /\ v.n = 0 /\ v.tools_t = "absent"

\* C21 as amended: the body of the request of invoke_tool has the caller's
\* payload as "input", the caller's context as "context" whenever the
\* context is neither None nor empty, and no "context" otherwise.
C21_ContextWhenNotEmpty ==
  Invoked =>
    /\ http[1].has_body
    /\ http[1].input = tcall.payload
    /\ (~Falsy(tcall.context) =>
          http[1].has_context /\ http[1].context = tcall.context)
    /\ (Falsy(tcall.context) => ~http[1].has_context)

\* invoke_tool was called with the context {} and a payload that is not
\* empty, and has issued its request
C21_Witness ==
  /\ Invoked
  /\ tcall.context = JDict(0, "absent", 0)
  /\ tcall.payload = JDict(2, "absent", 0)

\* C22: on a 2xx response with a JSON body list_tools returns the body when
\* it is a list, the member "tools" when the body is an object whose
\* "tools" is a list, and the empty list for every other JSON value, and
\* does not raise.
C22_ListToolsShapes ==
  (/\ tcall.op = "list_tools" /\ Responded
   /\ tcall.response.kind = "response" /\ tcall.response.status \in 200..299
   /\ tcall.response.body.kind = "json") =>
    LET v == tcall.response.body.value
    IN /\ tcall.result = "ok"
       /\ tcall.ret.t = "list"
       /\ (v.t = "list" => tcall.ret = v)
       /\ (v.t = "dict" /\ v.tools_t = "list" => tcall.ret.n = v.tools_n)
       /\ (v.t # "list" /\ ~(v.t = "dict" /\ v.tools_t = "list") => tcall.ret.n = 0)

\* list_tools got a 200 with the body {"tools": "x"}
C22_Witness ==
  /\ tcall.op = "list_tools" /\ Responded
  /\ tcall.response.status = 200
  /\ tcall.response.body = Body("json", JDict(0, "str", 1))
  /\ tcall.result = "ok"

\* the names of the nodes in the order of the dict
NamesOf(ns) == [i \in DOMAIN ns |-> ns[i].name]

\* the position of the node named name
PositionOf(ns, name) == CHOOSE i \in DOMAIN ns : ns[i].name = name

\* the position of the member with the key key in the "nodes" of a file
PositionInFile(f, key) == CHOOSE i \in DOMAIN f.nodes : f.nodes[i].key = key

\* C27: the nodes keep the order of their first registration (add_node of
\* a new name puts it last, add_node of a registered name keeps its place,
\* removal and set_active keep the order of the others, a new client finds
\* the order of the file), and after the removal of the active node the
\* active node is the remaining node that was registered earliest.
C27_FallbackIsEarliest ==
  /\ (call.op = "add_node" /\ call.result = "ok") =>
       NamesOf(nodes) = IF InNodes(call.pre_nodes, call.name)
                          THEN NamesOf(call.pre_nodes)
                          ELSE Append(NamesOf(call.pre_nodes), call.name)
  /\ (call.op = "set_active" /\ call.result = "ok") =>
       NamesOf(nodes) = NamesOf(call.pre_nodes)
  /\ (call.op \in {"init", "restart"} /\ call.result = "ok") =>
       \A i, j \in DOMAIN nodes :
         i < j => PositionInFile(call.pre_file, nodes[i].name)
                    < PositionInFile(call.pre_file, nodes[j].name)
  /\ (call.op = "remove_node" /\ call.result = "ok") =>
       /\ NamesOf(nodes) = SelectSeq(NamesOf(call.pre_nodes), LAMBDA n : n # call.name)
       /\ (call.pre_active = Str(call.name) /\ nodes # <<>>) =>
            /\ ActiveInNodes(nodes, active_name)
            /\ \A i \in DOMAIN nodes :
                 nodes[i].name # active_name.s =>
                   PositionOf(call.pre_nodes, active_name.s)
                     < PositionOf(call.pre_nodes, nodes[i].name)

\* the active node, registered first of three, was removed
C27_Witness ==
  /\ call.op = "remove_node" /\ call.result = "ok"
  /\ call.pre_active = Str(call.name)
  /\ Len(call.pre_nodes) = 3
  /\ call.pre_nodes[1].name = call.name
  /\ active_name = Str(call.pre_nodes[2].name)

\* C28: remove_node of a node that is not active leaves the active name as
\* it was, every remove_node leaves the other nodes as they were, and
\* list_tools, invoke_tool and get_active_node, failing or not, change
\* neither nodes, active name nor file.
C28_Frame ==
  /\ (call.op = "remove_node" /\ call.result = "ok") =>
       /\ (call.pre_active # Str(call.name) => active_name = call.pre_active)
       /\ \A i \in DOMAIN call.pre_nodes :
            call.pre_nodes[i].name # call.name =>
              \E j \in DOMAIN nodes : nodes[j] = call.pre_nodes[i]
       /\ Len(nodes) = Len(call.pre_nodes) - 1
  /\ call.op \in {"list_tools", "invoke_tool", "get_active_node"} =>
       /\ nodes = call.pre_nodes
       /\ active_name = call.pre_active
       /\ file = call.pre_file

\* a node that is not active was removed while the active node is not the
\* first of the remaining nodes
C28_Witness ==
  /\ call.op = "remove_node" /\ call.result = "ok"
  /\ call.pre_active # PyNone /\ call.pre_active # Str(call.name)
  /\ Len(nodes) = 2
  /\ Str(nodes[1].name) # call.pre_active

\* no process is between the open and the end of a write
Quiet == \A c \in Procs : clients[c].pc # "writing"

\* C23: with two clients on one file, when no write is under way the file
\* is the whole registry of the client that wrote last, with nothing of
\* the other client in it: a node that only the other client has is not in
\* the file.
C23_LastWriterWins ==
  (writer # 0 /\ Quiet) =>
    LET w == clients[writer]
    IN /\ file.kind = "obj" /\ file.nodesKind = "obj"
       /\ Len(file.nodes) = Len(w.nodes)
       /\ \A i \in DOMAIN w.nodes :
            /\ file.nodes[i].key = w.nodes[i].name
            /\ file.nodes[i].url = w.nodes[i].url
            /\ file.nodes[i].token = w.nodes[i].token
       /\ file.active = w.active_name
       /\ \A c \in Procs \ {writer} : \A j \in DOMAIN clients[c].nodes :
            ~InNodes(w.nodes, clients[c].nodes[j].name) =>
              \A i \in DOMAIN file.nodes : file.nodes[i].key # clients[c].nodes[j].name

\* C26: on a registry that starts empty, after any calls of add_node,
\* remove_node and set_active and any restarts, no node is active exactly
\* when the registry has no node.
C26_ActiveIffNonEmpty ==
  pc = "ready" => (active_name = PyNone <=> nodes = <<>>)

\* C29: when the write of add_node, remove_node or set_active fails the
\* call raises and nodes and active name are what they were before it.
C29_FailedWriteNoEffect ==
  (call.op \in {"add_node", "remove_node", "set_active"} /\ call.result = "OSError") =>
    /\ nodes = call.pre_nodes
    /\ active_name = call.pre_active

\* "/clear"
InputClear == <<47, 99, 108, 101, 97, 114>>

\* C24: the input "/clear" is taken by the clear branch of main and leaves
\* the list of messages with its first message only.
C24_ClearResets ==
  chat.input = InputClear =>
    /\ chat.handler = "clear"
    /\ chat.messages = <<chat.pre.messages[1]>>

\* "/model", "/model use m" and "/model default m"
InputModel == <<47, 109, 111, 100, 101, 108>>

InputModelUse == <<47, 109, 111, 100, 101, 108, 32, 117, 115, 101, 32, 109>>

InputModelDefault == <<47, 109, 111, 100, 101, 108, 32, 100, 101, 102, 97, 117, 108, 116, 32, 109>>

\* C25: an input that starts with "/model" is taken by handle_model_command;
\* "/model use m" makes "m" the current model, "/model default m" also the
\* default model; mode and offline node stay as they were.
C25_ModelCommand ==
  (Len(chat.input) >= 6 /\ SubSeq(chat.input, 1, 6) = InputModel) =>
    /\ chat.handler = "handle_model_command"
    /\ (chat.input = InputModelUse => chat.model = <<109>>)
    /\ (chat.input = InputModelDefault =>
          chat.model = <<109>> /\ chat.default_model = Str(<<109>>))
    /\ chat.mode = chat.pre.mode
    /\ chat.offline_node = chat.pre.offline_node

\* "/mode online"
InputModeOnline == <<47, 109, 111, 100, 101, 32, 111, 110, 108, 105, 110, 101>>

\* C30: in offline mode the offline node is set; a call of invoke_tool made
\* for an offline input names a node that is registered; and "/mode online"
\* leaves online mode with no offline node.
C30_OfflineTargetsRegistered ==
  /\ chat.mode = "offline" => chat.offline_node # PyNone
  /\ chat.invoked # PyNone => InNodes(nodes, chat.invoked.s)
  /\ chat.input = InputModeOnline =>
       chat.mode = "online" /\ chat.offline_node = PyNone

\* in offline mode, after the offline node was removed from the registry,
\* the input "x {}" was taken by handle_offline_input and made no call
C30_Witness ==
  /\ chat.mode = "offline"
  /\ chat.handler = "handle_offline_input"
  /\ chat.input = <<120, 32, 123, 125>>
  /\ ~InNodes(nodes, chat.offline_node.s)
  /\ nodes # <<>>
  /\ chat.invoked = PyNone

====
